---- MODULE Spec2Model ----
(***************************************************************************)
(* Proposer schedules, consensus-info range scans and paginated validator  *)
(* assignment listing of the beacon node.                                  *)
(*                                                                         *)
(*   blockchain.Service  MinimalConsensusInfo, MinimalConsensusInfoRange,  *)
(*                       getPastProposerListForEpoch                       *)
(*   rpc/beacon.Server   ListValidatorAssignments, GetProposerListForEpoch,*)
(*                       NextEpochProposerList                             *)
(*                                                                         *)
(* Strings that the code formats or parses (hex keys, page tokens) are     *)
(* sequences of one-character strings.  A Go map is a function; ranging    *)
(* over it visits its keys in an order the runtime picks afresh each time. *)
(***************************************************************************)
EXTENDS Integers, Sequences, FiniteSets, TLC

(***************************************************************************)
(* Bounds of the model.                                                    *)
(***************************************************************************)
\* Epochs 0..MaxEpoch can hold retained snapshots; the clock stops inside MaxEpoch.
MaxEpoch == 2
\* Size of the validator registry of every snapshot.
NumValidators == 3

(***************************************************************************)
(* Configuration of the node (params.BeaconConfig()), scaled down: mainnet *)
(* has 32 slots per epoch and 48-byte keys.                                *)
(***************************************************************************)
SlotsPerEpoch == 2
BLSPubkeyLength == 1
SecondsPerSlot == 12
genesisTime == 0
\* cmd.Get().MaxRPCPageSize and the paginator's default page size, scaled down.
MaxRPCPageSize == 3
DefaultPageSize == 2

Epochs == 0..MaxEpoch
\* The epochs a caller can name: one more than the clock can reach.
RequestEpochs == 0..(MaxEpoch + 1)
MaxSlot == (MaxEpoch + 1) * SlotsPerEpoch - 1
Slots == 0..MaxSlot
Validators == 0..(NumValidators - 1)

VARIABLES
    \* ---- environment -----------------------------------------------------
    currentSlot,      \* GenesisTimeFetcher.CurrentSlot()
    retained,         \* slots whose state snapshot the database retains
    schedule,         \* epoch -> (slot -> proposer index), the shuffle's result
    ctxDone,          \* the service context s.ctx has been cancelled
    \* ---- MinimalConsensusInfoRange ----------------------------------------
    scanPc,           \* "idle" | "scanning" | "done"
    fromEpoch,        \* the argument of the running / last range scan
    tempEpochIndex,   \* the loop variable
    consensusInfos,   \* the named result: records accumulated so far
    scanErr,          \* the named result err: "nil" or an error code
    scanNil,          \* the returned slice is nil (no records at all)
    attempts,         \* epochs handed to MinimalConsensusInfo, in call order
    lastErr,          \* currentErr of the attempt that ended the loop
    cancelledAt,      \* records accumulated when s.ctx was cancelled during this
                      \* scan; 0 if it was not cancelled during it
    \* ---- MinimalConsensusInfo (called on its own) -------------------------
    infoResp,
    \* ---- GetProposerListForEpoch / NextEpochProposerList ------------------
    plEpoch,          \* the epoch of the last proposer-list call
    plFirst,          \* its response
    plSecond,         \* the response of the same call made again
    \* ---- ListValidatorAssignments -----------------------------------------
    validators,       \* the registry: index -> activation and exit epoch
    laReq,            \* the last request
    laResp,           \* its response
    clPc,             \* the paging client: "off" | "paging" | "done" | "failed"
    clReceived        \* the validator indices the paging client has received

envVars == <<currentSlot, retained, schedule, ctxDone>>
scanVars == <<scanPc, fromEpoch, tempEpochIndex, consensusInfos, scanErr, scanNil,
              attempts, lastErr, cancelledAt>>
chainVars == <<infoResp, plEpoch, plFirst, plSecond>>
listVars == <<validators, laReq, laResp, clPc, clReceived>>

(***************************************************************************)
(* helpers (beacon-chain/core/helpers)                                     *)
(***************************************************************************)
StartSlot(epoch) == epoch * SlotsPerEpoch

EndSlot(epoch) == StartSlot(epoch) + SlotsPerEpoch - 1

SlotToEpoch(slot) == slot \div SlotsPerEpoch

SlotToTime(genesis, slot) == genesis + slot * SecondsPerSlot

\* The slots of an epoch that have a proposer: every slot but the genesis slot.
ProposerSlotsOf(epoch) == {s \in StartSlot(epoch)..EndSlot(epoch) : s # 0}

(***************************************************************************)
(* Byte strings and their hexadecimal form.                                *)
(***************************************************************************)
HexDigits == <<"0", "1", "2", "3", "4", "5", "6", "7", "8", "9",
               "a", "b", "c", "d", "e", "f">>

RECURSIVE EncodeToString(_)
\* hex.EncodeToString: two lower-case digits per byte, high nibble first.
EncodeToString(bytes) ==
    IF bytes = <<>> THEN <<>>
    ELSE <<HexDigits[(Head(bytes) \div 16) + 1], HexDigits[(Head(bytes) % 16) + 1]>>
         \o EncodeToString(Tail(bytes))

\* fmt.Sprintf("0x%s", hex.EncodeToString(b))
HexKey(bytes) == <<"0", "x">> \o EncodeToString(bytes)

\* make([]byte, BLSPubkeyLength): the all-zero key that stands for slot 0.
ZeroPubkey == [k \in 1..BLSPubkeyLength |-> 0]

\* state.PubkeyAtIndex: validator i's key, little-endian i+1 (never all zero).
PubkeyAtIndex(index) == [k \in 1..BLSPubkeyLength |-> IF k = 1 THEN index + 1 ELSE 0]

(***************************************************************************)
(* Sequences                                                               *)
(***************************************************************************)
Range(seq) == {seq[k] : k \in DOMAIN seq}

\* All orders in which a range over a map with the given key set can visit it.
Orders(keys) ==
    {o \in [1..Cardinality(keys) -> keys] : \A a, b \in DOMAIN o : a # b => o[a] # o[b]}

\* The elements of a set of numbers in increasing order.
SortAsc(set) ==
    [k \in 1..Cardinality(set) |->
        CHOOSE x \in set : Cardinality({y \in set : y < x}) = k - 1]

\* The elements of a set of numbers in decreasing order.
SortDesc(set) ==
    [k \in 1..Cardinality(set) |->
        CHOOSE x \in set : Cardinality({y \in set : y > x}) = k - 1]

(***************************************************************************)
(* The database and the shuffle                                            *)
(***************************************************************************)
\* beaconDB.HighestSlotStatesBelow(ctx, endSlot): the retained snapshots with
\* slot <= endSlot, highest slot first.  A call on a cancelled context may fail.
HighestSlotStatesBelow(endSlot, dbErr) ==
    IF dbErr THEN [err |-> TRUE, states |-> <<>>]
    ELSE [err |-> FALSE, states |-> SortDesc({s \in retained : s <= endSlot})]

\* helpers.ProposerAssignments(state, epoch): proposer index -> its slots in the
\* epoch, ascending.  The result depends on the epoch alone.
ProposerAssignments(epoch) ==
    LET sch == schedule[epoch]
        proposers == {sch[s] : s \in DOMAIN sch}
    IN [i \in proposers |-> SortAsc({s \in DOMAIN sch : sch[s] = i})]

\* The schedules the shuffle produces, as far as the model draws them: Rotating
\* goes through the registry slot by slot (all proposers distinct when the
\* registry has at least SlotsPerEpoch validators); in HeldTwice the proposer of
\* the epoch's first slot also holds its last slot.
Rotating(epoch) == [s \in ProposerSlotsOf(epoch) |-> s % NumValidators]

HeldTwice(epoch) ==
    LET first == CHOOSE s \in ProposerSlotsOf(epoch) : \A u \in ProposerSlotsOf(epoch) : s <= u
    IN [s \in ProposerSlotsOf(epoch) |->
           IF s = EndSlot(epoch) THEN first % NumValidators ELSE s % NumValidators]

\* The shuffle's results for all epochs when the clock stands at slot `now`: an
\* epoch the clock has not reached has the rotating schedule.
ScheduleChoices(now) ==
    {[e \in RequestEpochs |-> IF e \in twice THEN HeldTwice(e) ELSE Rotating(e)] :
        twice \in SUBSET {e \in RequestEpochs :
                             e <= SlotToEpoch(now) /\ HeldTwice(e) # Rotating(e)}}

(***************************************************************************)
(* Responses.  A failed call returns a nil response and an error: code is  *)
(* the error's status code ("Unknown" for a plain fmt.Errorf), msg names   *)
(* the failing step.                                                       *)
(***************************************************************************)
NoCall == [code |-> "none", msg |-> "", Epoch |-> 0, Assignments |-> <<>>]

Failure(code, msg) == [code |-> code, msg |-> msg, Epoch |-> 0, Assignments |-> <<>>]

\* The records built by ranging over proposerIndexToSlots in the order `order`.
ProposerRecords(proposerIndexToSlots, order) ==
    [k \in DOMAIN order |->
        [ValidatorIndex |-> order[k],
         PublicKey |-> PubkeyAtIndex(order[k]),
         ProposerSlots |-> proposerIndexToSlots[order[k]]]]

\* maxValidators: the record count the proposer-list operations insist on.
ExpectedProposers(epoch) == IF epoch = 0 THEN SlotsPerEpoch - 1 ELSE SlotsPerEpoch

(***************************************************************************)
(* blockchain.Service                                                      *)
(***************************************************************************)
\* A variant that falls back to the newest snapshot below the epoch's end.
SelectState_fallsBack(states, startSlot, endSlot) ==
    IF states = <<>> THEN -1 ELSE states[1]

\* The first snapshot of `states` whose slot lies in [startSlot, endSlot]; -1 if none.
SelectState(states, startSlot, endSlot) ==
    LET hits == {k \in DOMAIN states : states[k] >= startSlot /\ states[k] <= endSlot}
    IN IF hits = {} THEN -1
       ELSE states[CHOOSE k \in hits : \A j \in hits : k <= j]

\* getPastProposerListForEpoch.  dbErr: the database call fails; order: the order
\* in which the range over proposerIndexToSlots visits the map.
getPastProposerListForEpoch(currentEpoch, dbErr, order) ==
    LET startSlot == StartSlot(currentEpoch)
        endSlot == EndSlot(currentEpoch)
        db == HighestSlotStatesBelow(endSlot, dbErr)
        latestState == SelectState(db.states, startSlot, endSlot)
        proposerIndexToSlots == ProposerAssignments(currentEpoch)
        res == ProposerRecords(proposerIndexToSlots, order)
    IN IF db.err THEN Failure("Internal", "Could not retrieve archived state")
       ELSE IF latestState = -1 THEN Failure("Internal", "Could not retrieve any state")
       ELSE IF Len(res) # ExpectedProposers(currentEpoch)
            THEN Failure("Unknown", "invalid validators len")
       ELSE [code |-> "OK", msg |-> "", Epoch |-> currentEpoch, Assignments |-> res]

NoInfo == [code |-> "none", msg |-> "", Epoch |-> 0, Value |-> <<>>,
           EpochTimeStart |-> 0, SlotTimeDuration |-> 0]

InfoFailure(code, msg) == [NoInfo EXCEPT !.code = code, !.msg = msg]

\* A variant that puts the placeholder after the keys.
AssignmentsSlice_placeholderLast(epoch, assignments) ==
    [k \in DOMAIN assignments |-> HexKey(assignments[k].PublicKey)]
    \o (IF epoch = 0 THEN <<HexKey(ZeroPubkey)>> ELSE <<>>)

\* A variant without the placeholder of slot 0.
AssignmentsSlice_noPlaceholder(epoch, assignments) ==
    [k \in DOMAIN assignments |-> HexKey(assignments[k].PublicKey)]

\* The key list of MinimalConsensusInfo: for epoch 0 the placeholder of slot 0,
\* then every assignment's key in the order of the assignments.
AssignmentsSlice(epoch, assignments) ==
    (IF epoch = 0 THEN <<HexKey(ZeroPubkey)>> ELSE <<>>)
    \o [k \in DOMAIN assignments |-> HexKey(assignments[k].PublicKey)]

\* MinimalConsensusInfo
MinimalConsensusInfo(epoch, dbErr, order) ==
    LET assignments == getPastProposerListForEpoch(epoch, dbErr, order)
        assignmentsSlice == AssignmentsSlice(epoch, assignments.Assignments)
        expectedValidators == SlotsPerEpoch
        startSlot == StartSlot(epoch)
        epochStartTime == SlotToTime(genesisTime, startSlot)
    IN IF assignments.code # "OK" THEN InfoFailure(assignments.code, assignments.msg)
       ELSE IF Len(assignmentsSlice) # expectedValidators
            THEN InfoFailure("Unknown", "not enough assignments")
       ELSE [code |-> "OK", msg |-> "", Epoch |-> epoch, Value |-> assignmentsSlice,
             EpochTimeStart |-> epochStartTime, SlotTimeDuration |-> SecondsPerSlot]

\* What the context allows the database call to do: fail only once cancelled.
DbOutcomes == IF ctxDone THEN BOOLEAN ELSE {FALSE}

\* The orders a range over the proposer map of `epoch` can take.
MapOrders(epoch) == Orders(DOMAIN ProposerAssignments(epoch))

Idle == scanPc = "idle" /\ infoResp = NoInfo /\ plFirst = NoCall

\* A variant that drops the error of the first record.
FirstError_swallowed(consensusInfo) == "nil"

\* What MinimalConsensusInfoRange returns as err when the record of fromEpoch
\* fails: that record's error.
FirstError(consensusInfo) == consensusInfo.code

\* A variant that returns the error the loop ended on.
ErrAfterBreak_surfaced(err, currentErr) == currentErr

\* What it returns as err after the loop has ended on currentErr: the named
\* result err, which the loop never assigns.
ErrAfterBreak(err, currentErr) == err

\* MinimalConsensusInfoRange, up to the loop: the record of fromEpoch itself.
RangeStart(from) ==
    /\ Idle
    /\ \E dbErr \in DbOutcomes, order \in MapOrders(from) :
         LET consensusInfo == MinimalConsensusInfo(from, dbErr, order)
         IN /\ fromEpoch' = from
            /\ attempts' = <<from>>
            /\ cancelledAt' = 0
            /\ IF consensusInfo.code # "OK"
               THEN /\ scanPc' = "done"
                    /\ scanErr' = FirstError(consensusInfo)
                    /\ scanNil' = TRUE
                    /\ consensusInfos' = <<>>
                    /\ tempEpochIndex' = from
                    /\ lastErr' = consensusInfo.msg
               ELSE /\ scanPc' = "scanning"
                    /\ scanErr' = "nil"
                    /\ scanNil' = FALSE
                    /\ consensusInfos' = <<consensusInfo>>
                    /\ tempEpochIndex' = consensusInfo.Epoch
                    /\ lastErr' = ""
    /\ UNCHANGED <<envVars, chainVars, listVars>>

\* A variant that asks for the same epoch again.
NextEpochIndex_same(index) == index

\* tempEpochIndex++ at the head of the loop.
NextEpochIndex(index) == index + 1

\* One turn of the loop: the next epoch's record, appended, or the break and return.
RangeStep ==
    /\ scanPc = "scanning"
    /\ tempEpochIndex' = NextEpochIndex(tempEpochIndex)
    /\ NextEpochIndex(tempEpochIndex) \in RequestEpochs
    /\ \E dbErr \in DbOutcomes, order \in MapOrders(NextEpochIndex(tempEpochIndex)) :
         LET next == NextEpochIndex(tempEpochIndex)
             minimalConsensusInfo == MinimalConsensusInfo(next, dbErr, order)
         IN /\ attempts' = Append(attempts, next)
            /\ IF minimalConsensusInfo.code # "OK"
               THEN /\ scanPc' = "done"
                    /\ lastErr' = minimalConsensusInfo.msg
                    /\ scanErr' = ErrAfterBreak(scanErr, minimalConsensusInfo.code)
                    /\ UNCHANGED consensusInfos
               ELSE /\ consensusInfos' = Append(consensusInfos, minimalConsensusInfo)
                    /\ UNCHANGED <<scanPc, lastErr, scanErr>>
    /\ UNCHANGED <<envVars, chainVars, listVars, fromEpoch, scanNil, cancelledAt>>

\* MinimalConsensusInfo called on its own (the GetMinimalConsensusInfo endpoint).
CallMinimalConsensusInfo(epoch) ==
    /\ Idle
    /\ \E dbErr \in DbOutcomes, order \in MapOrders(epoch) :
         infoResp' = MinimalConsensusInfo(epoch, dbErr, order)
    /\ UNCHANGED <<envVars, scanVars, listVars, plEpoch, plFirst, plSecond>>

(***************************************************************************)
(* rpc/beacon.Server: the proposer list                                    *)
(***************************************************************************)
\* A variant that hands out a snapshot for a slot the clock has not reached.
StateBySlot_anySlot(slot, genErr) == [err |-> genErr, slot |-> slot]

\* StateGen.StateBySlot(ctx, slot): the snapshot at the slot, or an error: the
\* slot lies in an epoch after the current one, or no snapshot can be had (genErr).
StateBySlot(slot, genErr) ==
    [err |-> genErr \/ SlotToEpoch(slot) > SlotToEpoch(currentSlot), slot |-> slot]

\* A variant without the check of the record count.
GetProposerListForEpoch_unchecked(curEpoch, genErr, order) ==
    LET latestState == StateBySlot(StartSlot(curEpoch), genErr)
        res == ProposerRecords(ProposerAssignments(curEpoch), order)
    IN IF latestState.err THEN Failure("Internal", "Could not retrieve archived state")
       ELSE [code |-> "OK", msg |-> "", Epoch |-> curEpoch, Assignments |-> res]

\* GetProposerListForEpoch
GetProposerListForEpoch(curEpoch, genErr, order) ==
    LET startSlot == StartSlot(curEpoch)
        latestState == StateBySlot(startSlot, genErr)
        proposerIndexToSlots == ProposerAssignments(curEpoch)
        res == ProposerRecords(proposerIndexToSlots, order)
    IN IF latestState.err THEN Failure("Internal", "Could not retrieve archived state")
       ELSE IF Len(res) # ExpectedProposers(curEpoch)
            THEN Failure("Unknown", "invalid validators len")
       ELSE [code |-> "OK", msg |-> "", Epoch |-> curEpoch, Assignments |-> res]

\* NextEpochProposerList
NextEpochProposerList(genErr, order) ==
    LET curEpoch == SlotToEpoch(currentSlot)
    IN GetProposerListForEpoch(curEpoch, genErr, order)

CallGetProposerListForEpoch(curEpoch) ==
    /\ Idle
    /\ \E genErr \in BOOLEAN, order \in MapOrders(curEpoch) :
         plFirst' = GetProposerListForEpoch(curEpoch, genErr, order)
    /\ plEpoch' = curEpoch
    /\ UNCHANGED <<envVars, scanVars, listVars, infoResp, plSecond>>

CallNextEpochProposerList ==
    /\ Idle
    /\ \E genErr \in BOOLEAN, order \in MapOrders(SlotToEpoch(currentSlot)) :
         plFirst' = NextEpochProposerList(genErr, order)
    /\ plEpoch' = SlotToEpoch(currentSlot)
    /\ UNCHANGED <<envVars, scanVars, listVars, infoResp, plSecond>>

\* The caller repeats its proposer-list call for the same epoch on the same store.
RepeatGetProposerListForEpoch ==
    /\ plFirst # NoCall
    /\ plSecond = NoCall
    /\ \E genErr \in BOOLEAN, order \in MapOrders(plEpoch) :
         plSecond' = GetProposerListForEpoch(plEpoch, genErr, order)
    /\ UNCHANGED <<envVars, scanVars, listVars, infoResp, plEpoch, plFirst>>

(***************************************************************************)
(* Page tokens: decimal strings                                            *)
(***************************************************************************)
Digits == <<"0", "1", "2", "3", "4", "5", "6", "7", "8", "9">>

RECURSIVE Itoa(_)
\* strconv.Itoa for n >= 0
Itoa(n) == IF n < 10 THEN <<Digits[n + 1]>> ELSE Itoa(n \div 10) \o <<Digits[(n % 10) + 1]>>

IsDigit(c) == \E d \in DOMAIN Digits : Digits[d] = c

DigitValue(c) == (CHOOSE d \in DOMAIN Digits : Digits[d] = c) - 1

RECURSIVE DecimalValue(_)
DecimalValue(str) ==
    IF str = <<>> THEN 0
    ELSE DecimalValue(SubSeq(str, 1, Len(str) - 1)) * 10 + DigitValue(str[Len(str)])

\* strconv.Atoi on an unsigned decimal string; anything else is an error.
Atoi(str) ==
    IF str # <<>> /\ \A k \in DOMAIN str : IsDigit(str[k])
    THEN [err |-> FALSE, val |-> DecimalValue(str)]
    ELSE [err |-> TRUE, val |-> 0]

\* A variant that takes the token for the offset of the page's first element.
StartAndEndPage_absoluteOffset(pageToken, pageSize, totalSize) ==
    LET tokenStr == IF pageToken = <<>> THEN Itoa(0) ELSE pageToken
        size == IF pageSize = 0 THEN DefaultPageSize ELSE pageSize
        token == Atoi(tokenStr)
        start == token.val
        end == start + size
    IN IF token.err
       THEN [err |-> TRUE, msg |-> "could not convert page token", args |-> <<>>,
             start |-> 0, end |-> 0, nextPageToken |-> <<>>]
       ELSE IF start >= totalSize
       THEN [err |-> TRUE, msg |-> "page start >= list", args |-> <<start, totalSize>>,
             start |-> 0, end |-> 0, nextPageToken |-> <<>>]
       ELSE IF end >= totalSize
       THEN [err |-> FALSE, msg |-> "", args |-> <<>>, start |-> start, end |-> totalSize,
             nextPageToken |-> <<>>]
       ELSE [err |-> FALSE, msg |-> "", args |-> <<>>, start |-> start, end |-> end,
             nextPageToken |-> Itoa(end)]

\* pagination.StartAndEndPage(pageToken, pageSize, totalSize); args: the values
\* its error message names.
StartAndEndPage(pageToken, pageSize, totalSize) ==
    LET tokenStr == IF pageToken = <<>> THEN Itoa(0) ELSE pageToken
        size == IF pageSize = 0 THEN DefaultPageSize ELSE pageSize
        token == Atoi(tokenStr)
        start == token.val * size
        end == start + size
    IN IF token.err
       THEN [err |-> TRUE, msg |-> "could not convert page token", args |-> <<>>,
             start |-> 0, end |-> 0, nextPageToken |-> <<>>]
       ELSE IF start >= totalSize
       THEN [err |-> TRUE, msg |-> "page start >= list", args |-> <<start, totalSize>>,
             start |-> 0, end |-> 0, nextPageToken |-> <<>>]
       ELSE IF end >= totalSize
       THEN [err |-> FALSE, msg |-> "", args |-> <<>>, start |-> start, end |-> totalSize,
             nextPageToken |-> <<>>]
       ELSE [err |-> FALSE, msg |-> "", args |-> <<>>, start |-> start, end |-> end,
             nextPageToken |-> Itoa(token.val + 1)]

(***************************************************************************)
(* The snapshot's validator registry                                       *)
(***************************************************************************)
FarFutureEpoch == MaxEpoch + 2

\* bytesutil.ToBytes48: the key cut or zero-padded to the key length.
ToBytes48(key) ==
    [k \in 1..BLSPubkeyLength |-> IF k <= Len(key) THEN key[k] ELSE 0]

\* state.ValidatorIndexByPubkey
ValidatorIndexByPubkey(key) ==
    LET hits == {i \in Validators : PubkeyAtIndex(i) = key}
    IN IF hits = {} THEN [ok |-> FALSE, index |-> 0]
       ELSE [ok |-> TRUE, index |-> CHOOSE i \in hits : TRUE]

\* helpers.IsActiveValidator
IsActiveValidator(validator, epoch) ==
    validator.ActivationEpoch <= epoch /\ epoch < validator.ExitEpoch

\* helpers.ActiveValidatorIndices(state, epoch): in registry order.
ActiveValidatorIndices(epoch) ==
    SortAsc({i \in Validators : IsActiveValidator(validators[i], epoch)})

\* helpers.CommitteeAssignments(state, epoch): one committee per slot, every
\* validator attesting in the slot its index selects.
CommitteeAssignments(epoch) ==
    [i \in Validators |->
        [Committee |-> SortAsc({j \in Validators : j % SlotsPerEpoch = i % SlotsPerEpoch}),
         CommitteeIndex |-> 0,
         AttesterSlot |-> StartSlot(epoch) + (i % SlotsPerEpoch)]]

(***************************************************************************)
(* rpc/beacon.Server.ListValidatorAssignments                              *)
(***************************************************************************)
NoList == [code |-> "none", msg |-> "", cause |-> <<>>, Epoch |-> 0, Assignments |-> <<>>,
           NextPageToken |-> <<>>, TotalSize |-> 0, calls |-> <<>>]

\* A nil response with an error; calls: what the handler had called by then;
\* cause: the message and values of the error it wraps (%v), if any.
ListFailure(code, msg, calls) == [NoList EXCEPT !.code = code, !.msg = msg, !.calls = calls]

\* The switch on req.QueryFilter.
RequestedEpoch(q) ==
    IF q.kind = "epoch" THEN q.Epoch ELSE 0

\* A variant that passes over a key no validator has.
RECURSIVE ResolveKeys_skipsUnknown(_)
ResolveKeys_skipsUnknown(publicKeys) ==
    IF publicKeys = <<>> THEN [ok |-> TRUE, indices |-> <<>>, lookups |-> 0]
    ELSE LET hit == ValidatorIndexByPubkey(ToBytes48(Head(publicKeys)))
             rest == ResolveKeys_skipsUnknown(Tail(publicKeys))
         IN [ok |-> TRUE,
             indices |-> (IF hit.ok THEN <<hit.index>> ELSE <<>>) \o rest.indices,
             lookups |-> 1 + rest.lookups]

\* The loop over req.PublicKeys: the indices resolved before the first key that
\* resolves to nothing, and whether there is such a key.
RECURSIVE ResolveKeys(_)
ResolveKeys(publicKeys) ==
    IF publicKeys = <<>> THEN [ok |-> TRUE, indices |-> <<>>, lookups |-> 0]
    ELSE LET hit == ValidatorIndexByPubkey(ToBytes48(Head(publicKeys)))
             rest == ResolveKeys(Tail(publicKeys))
         IN IF ~hit.ok THEN [ok |-> FALSE, indices |-> <<>>, lookups |-> 1]
            ELSE [ok |-> rest.ok,
                  indices |-> IF rest.ok THEN <<hit.index>> \o rest.indices ELSE <<>>,
                  lookups |-> 1 + rest.lookups]

\* The loop over req.Indices: the indices that no public key resolved to.
AppendIndices(fromKeys, indices) ==
    fromKeys \o SelectSeq(indices, LAMBDA i : i \notin Range(fromKeys))

\* A variant that lists the active validators whatever the request names.
FilteredIndices_alwaysActive(byFilter, activeIndices) == activeIndices

\* filteredIndices as the paginator gets it: the active validators when neither
\* loop has appended an index.
FilteredIndices(byFilter, activeIndices) ==
    IF Len(byFilter) = 0 THEN activeIndices ELSE byFilter

\* A variant that ends the listing with the empty token.
EmptyResponse_emptyToken(calls) == [NoList EXCEPT !.code = "OK", !.calls = calls]

\* The response when there is no index to list: no assignments, size 0 and the
\* token strconv.Itoa(0).
EmptyResponse(calls) ==
    [NoList EXCEPT !.code = "OK", !.NextPageToken = Itoa(0), !.calls = calls]

\* A variant that goes on after the paginator has failed.
PageFailed_ignored(page) == FALSE

\* err != nil after pagination.StartAndEndPage
PageFailed(page) == page.err

\* A variant that serves the list from the page's start to its end.
ServedPage_toEnd(filteredIndices, start, end) ==
    SubSeq(filteredIndices, start + 1, Len(filteredIndices))

\* A variant that reports the size of the served page.
TotalSizeOf_servedPage(filteredIndices, res) == Len(res)

\* TotalSize: int32(len(filteredIndices))
TotalSizeOf(filteredIndices, res) == Len(filteredIndices)

\* A variant that takes the whole list, whatever the page.
ServedPage_wholeList(filteredIndices, start, end) == filteredIndices

\* A variant that serves every page from the front of the list.
ServedPage_fromFront(filteredIndices, start, end) == SubSeq(filteredIndices, 1, end)

\* filteredIndices[start:end]
ServedPage(filteredIndices, start, end) == SubSeq(filteredIndices, start + 1, end)

errEpoch == "Cannot retrieve information about an epoch in the future"

errPageSize == "Requested page size can not be greater than max size"

\* A variant that lets a page one over the maximum through.
PageSizeExceedsMax_offByOne(pageSize) == pageSize > MaxRPCPageSize + 1

\* int(req.PageSize) > cmd.Get().MaxRPCPageSize
PageSizeExceedsMax(pageSize) == pageSize > MaxRPCPageSize

\* A variant that also rejects the current epoch.
IsFutureEpoch_orCurrent(requestedEpoch, currentEpoch) == requestedEpoch >= currentEpoch

\* requestedEpoch > currentEpoch
IsFutureEpoch(requestedEpoch, currentEpoch) == requestedEpoch > currentEpoch

\* The record built for one index of the served page.
Assignment(index, committeeAssignments, proposerIndexToSlots) ==
    [BeaconCommittees |-> committeeAssignments[index].Committee,
     CommitteeIndex |-> committeeAssignments[index].CommitteeIndex,
     AttesterSlot |-> committeeAssignments[index].AttesterSlot,
     ProposerSlots |-> IF index \in DOMAIN proposerIndexToSlots
                       THEN proposerIndexToSlots[index] ELSE <<>>,
     PublicKey |-> PubkeyAtIndex(index),
     ValidatorIndex |-> index]

ListValidatorAssignments(req, genErr) ==
    LET requestedEpoch == RequestedEpoch(req.QueryFilter)
        currentEpoch == SlotToEpoch(currentSlot)
        startSlot == StartSlot(requestedEpoch)
        requestedState == StateBySlot(startSlot, genErr)
        resolved == ResolveKeys(req.PublicKeys)
        byFilter == AppendIndices(resolved.indices, req.Indices)
        activeIndices == ActiveValidatorIndices(requestedEpoch)
        filteredIndices == FilteredIndices(byFilter, activeIndices)
        page == StartAndEndPage(req.PageToken, req.PageSize, Len(filteredIndices))
        served == ServedPage(filteredIndices, page.start, page.end)
        committeeAssignments == CommitteeAssignments(requestedEpoch)
        proposerIndexToSlots == ProposerAssignments(requestedEpoch)
        c1 == <<"CurrentSlot">>
        c2 == c1 \o <<"StateBySlot">>
        c3 == c2 \o [k \in 1..resolved.lookups |-> "ValidatorIndexByPubkey"]
        c4 == c3 \o <<"ActiveValidatorIndices">>
        c5 == c4 \o <<"StartAndEndPage">>
        c6 == c5 \o <<"CommitteeAssignments">>
    IN IF PageSizeExceedsMax(req.PageSize)
       THEN ListFailure("InvalidArgument", errPageSize, <<>>)
       ELSE IF IsFutureEpoch(requestedEpoch, currentEpoch)
       THEN ListFailure("InvalidArgument", errEpoch, c1)
       ELSE IF requestedState.err
       THEN ListFailure("Internal", "Could not retrieve archived state", c2)
       ELSE IF ~resolved.ok
       THEN ListFailure("NotFound", "Could not find validator index for public key", c3)
       ELSE IF Len(byFilter) = 0 /\ Len(activeIndices) = 0
       THEN EmptyResponse(c4)
       ELSE IF PageFailed(page)
       THEN [ListFailure("Internal", "Could not paginate results", c5)
                EXCEPT !.cause = <<page.msg>> \o page.args]
       ELSE IF \E k \in DOMAIN served : served[k] >= NumValidators
       THEN ListFailure("OutOfRange", "Validator index >= validator count", c6)
       ELSE [code |-> "OK", msg |-> "", cause |-> <<>>, Epoch |-> requestedEpoch,
             Assignments |-> [k \in DOMAIN served |->
                                 Assignment(served[k], committeeAssignments, proposerIndexToSlots)],
             NextPageToken |-> page.nextPageToken,
             TotalSize |-> TotalSizeOf(filteredIndices, served),
             calls |-> c6]

(***************************************************************************)
(* Requests to ListValidatorAssignments                                    *)
(***************************************************************************)
QueryFilters ==
    {[kind |-> "none", Genesis |-> FALSE, Epoch |-> 0],
     [kind |-> "genesis", Genesis |-> TRUE, Epoch |-> 0],
     [kind |-> "genesis", Genesis |-> FALSE, Epoch |-> 0]}
    \cup {[kind |-> "epoch", Genesis |-> FALSE, Epoch |-> e] : e \in RequestEpochs}

\* Every validator's key and one key no validator has.
KeyChoices == {PubkeyAtIndex(i) : i \in Validators} \cup {ZeroPubkey}

\* Every validator's index and one index past the registry.
IndexChoices == 0..NumValidators

ShortSeqs(S) == {<<>>} \cup {<<a>> : a \in S} \cup {<<a, b>> : a, b \in S}

\* The key and index lists of a request: at most two entries in all.
FilterChoices ==
    {p \in ShortSeqs(KeyChoices) \X ShortSeqs(IndexChoices) : Len(p[1]) + Len(p[2]) <= 2}

\* No token, the tokens of the pages a listing can have and of one page past
\* them, and a token that is no number.
PageTokens == {<<>>, <<"x">>} \cup {Itoa(n) : n \in 0..NumValidators}

PageSizes == 0..(MaxRPCPageSize + 1)

Requests ==
    {[PageSize |-> ps, QueryFilter |-> q, PublicKeys |-> f[1], Indices |-> f[2],
      PageToken |-> tok] :
        ps \in PageSizes, q \in QueryFilters, f \in FilterChoices, tok \in PageTokens}

\* The first request of a paging client: no page token, a page size of its choice.
ClientRequests == {req \in Requests : req.PageToken = <<>> /\ req.PageSize >= 1}

NoRequest == [PageSize |-> 0, QueryFilter |-> [kind |-> "none", Genesis |-> FALSE, Epoch |-> 0],
              PublicKeys |-> <<>>, Indices |-> <<>>, PageToken |-> <<>>]

\* The validator indices of a response, in response order.
ResponseIndices(resp) == [k \in DOMAIN resp.Assignments |-> resp.Assignments[k].ValidatorIndex]

\* No call to the listing service is under way.
ListIdle == clPc = "off" /\ laResp = NoList

\* One call, with any request.
CallListValidatorAssignments(req) ==
    /\ ListIdle
    /\ laReq' = req
    /\ \E genErr \in BOOLEAN : laResp' = ListValidatorAssignments(req, genErr)
    /\ UNCHANGED <<envVars, scanVars, chainVars, validators, clPc, clReceived>>

\* Where a paging client stands after a response.
ClientAfter(resp) ==
    IF resp.code # "OK" THEN "failed"
    ELSE IF resp.NextPageToken = <<>> THEN "done"
    ELSE "paging"

\* A client starts a listing: no page token, a page size of its choice.
ClientStart(req) ==
    /\ ListIdle
    /\ laReq' = req
    /\ \E genErr \in BOOLEAN :
         LET resp == ListValidatorAssignments(req, genErr)
         IN /\ laResp' = resp
            /\ clPc' = ClientAfter(resp)
            /\ clReceived' = ResponseIndices(resp)
    /\ UNCHANGED <<envVars, scanVars, chainVars, validators>>

\* The client asks for the next page: the same request with the token it was given.
ClientNext ==
    /\ clPc = "paging"
    /\ LET req == [laReq EXCEPT !.PageToken = laResp.NextPageToken]
       IN /\ laReq' = req
          /\ \E genErr \in BOOLEAN :
               LET resp == ListValidatorAssignments(req, genErr)
               IN /\ laResp' = resp
                  /\ clPc' = ClientAfter(resp)
                  /\ clReceived' = clReceived \o ResponseIndices(resp)
    /\ UNCHANGED <<envVars, scanVars, chainVars, validators>>

\* The caller has its answer or its listing; the next call can start.
ReturnList ==
    /\ laResp # NoList
    /\ clPc # "paging"
    /\ laReq' = NoRequest
    /\ laResp' = NoList
    /\ clPc' = "off"
    /\ clReceived' = <<>>
    /\ UNCHANGED <<envVars, scanVars, chainVars, validators>>

\* The registries the model draws: every validator active from genesis on, or all
\* but one, or none; a validator that is not is active in epoch 1 alone.
EarlyValidator == [ActivationEpoch |-> 0, ExitEpoch |-> FarFutureEpoch]

LateValidator == [ActivationEpoch |-> 1, ExitEpoch |-> 2]

Registries ==
    {[i \in Validators |-> EarlyValidator], [i \in Validators |-> LateValidator]}
    \cup {[i \in Validators |-> IF i = late THEN LateValidator ELSE EarlyValidator] :
            late \in Validators}

(***************************************************************************)
(* The environment and the callers                                         *)
(***************************************************************************)
\* s.ctx is cancelled (the node shuts down); it stays cancelled.
Cancel ==
    /\ ~ctxDone
    /\ ctxDone' = TRUE
    /\ cancelledAt' = IF scanPc = "scanning" THEN Len(consensusInfos) ELSE 0
    /\ UNCHANGED <<currentSlot, retained, schedule, chainVars, listVars>>
    /\ UNCHANGED <<scanPc, fromEpoch, tempEpochIndex, consensusInfos, scanErr, scanNil,
                   attempts, lastErr>>

\* The caller has its answer; the next call can start.
Return ==
    /\ scanPc = "done" \/ infoResp # NoInfo \/ plFirst # NoCall
    /\ scanPc' = "idle"
    /\ fromEpoch' = 0
    /\ tempEpochIndex' = 0
    /\ consensusInfos' = <<>>
    /\ scanErr' = "nil"
    /\ scanNil' = TRUE
    /\ attempts' = <<>>
    /\ lastErr' = ""
    /\ cancelledAt' = 0
    /\ infoResp' = NoInfo
    /\ plEpoch' = 0
    /\ plFirst' = NoCall
    /\ plSecond' = NoCall
    /\ UNCHANGED <<envVars, listVars>>

\* Snapshots exist only for slots the clock has reached, and the shuffle's result
\* varies only for epochs the clock has reached.
Init ==
    /\ currentSlot \in Slots
    /\ retained \in SUBSET (0..currentSlot)
    /\ schedule \in ScheduleChoices(currentSlot)
    /\ ctxDone = FALSE
    /\ scanPc = "idle"
    /\ fromEpoch = 0
    /\ tempEpochIndex = 0
    /\ consensusInfos = <<>>
    /\ scanErr = "nil"
    /\ scanNil = TRUE
    /\ attempts = <<>>
    /\ lastErr = ""
    /\ cancelledAt = 0
    /\ infoResp = NoInfo
    /\ plEpoch = 0
    /\ plFirst = NoCall
    /\ plSecond = NoCall
    /\ validators = [i \in Validators |-> EarlyValidator]
    /\ laReq = NoRequest
    /\ laResp = NoList
    /\ clPc = "off"
    /\ clReceived = <<>>

vars == <<envVars, scanVars, chainVars, listVars>>

Next ==
    \/ \E from \in RequestEpochs : RangeStart(from)
    \/ RangeStep
    \/ \E epoch \in RequestEpochs : CallMinimalConsensusInfo(epoch)
    \/ \E curEpoch \in RequestEpochs : CallGetProposerListForEpoch(curEpoch)
    \/ CallNextEpochProposerList
    \/ RepeatGetProposerListForEpoch
    \/ Cancel
    \/ Return

Spec == Init /\ [][Next]_vars

\* The range scan on its own. The loop runs in the caller's goroutine, which
\* keeps taking its next turn for as long as the loop has one.
NextScan ==
    \/ \E from \in RequestEpochs : RangeStart(from)
    \/ RangeStep
    \/ Cancel
    \/ Return

SpecScan == Init /\ [][NextScan]_vars /\ WF_vars(RangeStep)

\* The listing service on its own: any clock, any registry of the family, the
\* rotating schedule.
InitList ==
    /\ currentSlot \in Slots
    /\ validators \in Registries
    /\ retained = {}
    /\ schedule = [e \in RequestEpochs |-> Rotating(e)]
    /\ ctxDone = FALSE
    /\ scanPc = "idle"
    /\ fromEpoch = 0
    /\ tempEpochIndex = 0
    /\ consensusInfos = <<>>
    /\ scanErr = "nil"
    /\ scanNil = TRUE
    /\ attempts = <<>>
    /\ lastErr = ""
    /\ cancelledAt = 0
    /\ infoResp = NoInfo
    /\ plEpoch = 0
    /\ plFirst = NoCall
    /\ plSecond = NoCall
    /\ laReq = NoRequest
    /\ laResp = NoList
    /\ clPc = "off"
    /\ clReceived = <<>>

NextList ==
    \/ ListIdle /\ \E req \in Requests : CallListValidatorAssignments(req)
    \/ ListIdle /\ \E req \in ClientRequests : ClientStart(req)
    \/ ClientNext
    \/ ReturnList

SpecList == InitList /\ [][NextList]_vars

(***************************************************************************)
(* Properties                                                              *)
(***************************************************************************)
\* The epochs that have a retained snapshot.
RetainedEpochs == {SlotToEpoch(s) : s \in retained}

\* The epoch's record can be computed from the store: a snapshot lies in the
\* epoch and no validator proposes twice in it.
EpochComputable(epoch) ==
    /\ epoch \in RetainedEpochs
    /\ \A s, u \in ProposerSlotsOf(epoch) : s # u => schedule[epoch][s] # schedule[epoch][u]

\* The records a caller has been handed: by a range scan and by a single call.
ReturnedRecords ==
    Range(consensusInfos) \cup (IF infoResp.code = "OK" THEN {infoResp} ELSE {})

\* "0x" and two zeros per key byte.
PlaceholderKey == <<"0", "x">> \o [k \in 1..(2 * BLSPubkeyLength) |-> "0"]

\* The hexadecimal keys of the validators that propose in the epoch.
ProposerKeys(epoch) ==
    {HexKey(PubkeyAtIndex(schedule[epoch][s])) : s \in ProposerSlotsOf(epoch)}

\* C1: when the record of fromEpoch itself cannot be computed, the range scan
\* returns an error and no records; a scan that returns no error returns at
\* least one record.
C1_FirstFailureFailsTheScan ==
    scanPc = "done" =>
        /\ Len(attempts) = 1 => scanErr # "nil" /\ scanNil /\ consensusInfos = <<>>
        /\ ~EpochComputable(fromEpoch) => scanErr # "nil" /\ scanNil /\ consensusInfos = <<>>
        /\ scanErr = "nil" => ~scanNil /\ Len(consensusInfos) >= 1

\* A scan from an epoch that has no snapshot has returned.
C1_Witness ==
    /\ scanPc = "done"
    /\ fromEpoch \notin RetainedEpochs
    /\ attempts = <<fromEpoch>>
    /\ scanErr = "Internal"

\* C2: once the record of fromEpoch has succeeded, the first failure at a later
\* epoch ends the scan, the returned error is nil, and every record accumulated
\* before the failure is returned.
C2_LaterFailureEndsTheScanSilently ==
    /\ scanPc = "scanning" =>
          /\ lastErr = ""
          /\ Len(consensusInfos) = Len(attempts)
    /\ scanPc = "done" /\ Len(attempts) > 1 =>
          /\ scanErr = "nil"
          /\ ~scanNil
          /\ lastErr # ""
          /\ Len(consensusInfos) = Len(attempts) - 1
          /\ \A k \in DOMAIN consensusInfos :
                consensusInfos[k].code = "OK" /\ consensusInfos[k].Epoch = attempts[k]

\* A scan has returned two records after failing at the third epoch.
C2_Witness ==
    /\ scanPc = "done"
    /\ Len(attempts) = 3
    /\ Len(consensusInfos) = 2
    /\ lastErr # ""

\* C3: a successful scan returns the records of fromEpoch, fromEpoch+1, ... in
\* order, ends right before the first epoch that fails, and over a store that
\* retains exactly the epochs 0..N-1 a scan from epoch 0 returns N records.
C3_ScanReturnsEveryRetainedEpoch ==
    scanPc = "done" /\ scanErr = "nil" =>
        /\ \A k \in DOMAIN consensusInfos : consensusInfos[k].Epoch = fromEpoch + k - 1
        /\ attempts[Len(attempts)] = fromEpoch + Len(consensusInfos)
        /\ fromEpoch = 0 /\ RetainedEpochs = 0..(Cardinality(RetainedEpochs) - 1) =>
              Len(consensusInfos) = Cardinality(RetainedEpochs)

\* C4: every returned record has exactly SlotsPerEpoch keys; for epoch 0 the
\* first is the all-zero placeholder and the others are the keys of the epoch's
\* proposers; for a later epoch all are keys of its proposers and none is the
\* placeholder.
C4_RecordsHaveSlotsPerEpochKeys ==
    \A rec \in ReturnedRecords :
        /\ rec.code = "OK"
        /\ Len(rec.Value) = SlotsPerEpoch
        /\ IF rec.Epoch = 0
           THEN /\ rec.Value[1] = PlaceholderKey
                /\ \A k \in 2..Len(rec.Value) :
                      rec.Value[k] \in ProposerKeys(0) /\ rec.Value[k] # PlaceholderKey
           ELSE \A k \in DOMAIN rec.Value :
                   rec.Value[k] \in ProposerKeys(rec.Epoch) /\ rec.Value[k] # PlaceholderKey

\* A scan has returned the records of epoch 0 and of epoch 1.
C4_Witness ==
    /\ scanPc = "done"
    /\ fromEpoch = 0
    /\ Len(consensusInfos) >= 2
    /\ consensusInfos[1].Value[1] = PlaceholderKey

\* C5: a successful GetProposerListForEpoch(E) returns SlotsPerEpoch records for
\* E > 0 and SlotsPerEpoch - 1 for E = 0, and its epoch field is E.
C5_ProposerListLength ==
    \A resp \in {plFirst, plSecond} :
        resp.code = "OK" =>
            /\ Len(resp.Assignments) = IF plEpoch = 0 THEN SlotsPerEpoch - 1 ELSE SlotsPerEpoch
            /\ resp.Epoch = plEpoch

\* The proposer list of an epoch after genesis has been returned.
C5_Witness ==
    /\ plFirst.code = "OK"
    /\ plEpoch > 0
    /\ Len(plFirst.Assignments) = SlotsPerEpoch

\* C6: GetProposerListForEpoch(E), repeated on the unchanged store, returns the
\* same records in the same order.
C6_RepeatedProposerListIsIdentical ==
    plFirst.code = "OK" /\ plSecond.code = "OK" => plSecond = plFirst

\* C7: in every returned record the key at position i is the key of the proposer
\* of slot StartSlot(E)+i, position 0 of epoch 0 being the placeholder.
C7_KeysAreInSlotOrder ==
    \A rec \in ReturnedRecords :
        \A k \in DOMAIN rec.Value :
            LET slot == StartSlot(rec.Epoch) + k - 1
            IN rec.Value[k] = IF slot = 0 THEN PlaceholderKey
                              ELSE HexKey(PubkeyAtIndex(schedule[rec.Epoch][slot]))

\* The candidate list of a request: the resolved keys, then the indices no key
\* resolved to, or the active validators when there is neither.
CandidatesOf(req) ==
    LET byFilter == AppendIndices(ResolveKeys(req.PublicKeys).indices, req.Indices)
    IN IF Len(byFilter) = 0 THEN ActiveValidatorIndices(RequestedEpoch(req.QueryFilter))
       ELSE byFilter

\* C8: a client that starts with no token and a page size P >= 1 and passes each
\* returned token back has, after every page, received the first pages of the
\* candidate list, and once it is returned the empty token it has received the
\* whole candidate list, every element once and in order.
C8_PagingCoversTheCandidates ==
    /\ clPc = "paging" =>
          /\ Len(clReceived) = Atoi(laResp.NextPageToken).val * laReq.PageSize
          /\ Len(clReceived) <= Len(CandidatesOf(laReq))
          /\ clReceived = SubSeq(CandidatesOf(laReq), 1, Len(clReceived))
    /\ clPc = "done" => clReceived = CandidatesOf(laReq)

\* A client has listed three candidates, two to a page.
C8_Witness ==
    /\ clPc = "done"
    /\ laReq.PageSize = 2
    /\ laReq.PageToken = Itoa(1)
    /\ Len(clReceived) = 3

\* C9: a request whose page size exceeds the maximum fails with InvalidArgument
\* before anything else is looked at or called, whatever else it holds.
C9_PageSizeIsCheckedFirst ==
    laResp # NoList /\ laReq.PageSize > MaxRPCPageSize =>
        laResp = ListFailure("InvalidArgument", errPageSize, <<>>)

\* An oversized page was asked for a future epoch and a key no validator has.
C9_Witness ==
    /\ laResp.code = "InvalidArgument"
    /\ laReq.PageSize > MaxRPCPageSize
    /\ RequestedEpoch(laReq.QueryFilter) > SlotToEpoch(currentSlot)
    /\ laReq.PublicKeys = <<ZeroPubkey>>

\* C10: a request for an epoch after the current one fails with InvalidArgument
\* before any snapshot is fetched or key resolved; a request for the current or
\* an earlier epoch never fails with that error.
C10_FutureEpochIsRejected ==
    laResp # NoList =>
        IF RequestedEpoch(laReq.QueryFilter) > SlotToEpoch(currentSlot)
        THEN /\ laResp.code = "InvalidArgument"
             /\ laReq.PageSize <= MaxRPCPageSize =>
                   laResp = ListFailure("InvalidArgument", errEpoch, <<"CurrentSlot">>)
        ELSE laResp.msg # errEpoch

\* A request with a key to resolve was rejected for its future epoch.
C10_Witness ==
    /\ laResp.msg = errEpoch
    /\ laReq.PublicKeys # <<>>
    /\ RequestedEpoch(laReq.QueryFilter) = SlotToEpoch(currentSlot) + 1

\* The request got past the checks of the page size, the epoch and the snapshot.
PastSnapshot ==
    /\ laResp # NoList
    /\ Len(laResp.calls) >= 2
    /\ laResp.msg # "Could not retrieve archived state"

\* The indices the keys of a request resolve to, key by key.
RECURSIVE IndicesOfKeys(_)
IndicesOfKeys(publicKeys) ==
    IF publicKeys = <<>> THEN <<>>
    ELSE <<ValidatorIndexByPubkey(ToBytes48(Head(publicKeys))).index>>
         \o IndicesOfKeys(Tail(publicKeys))

\* A sequence without the later occurrences of its elements.
RECURSIVE FirstOccurrences(_)
FirstOccurrences(seq) ==
    IF seq = <<>> THEN <<>>
    ELSE LET front == SubSeq(seq, 1, Len(seq) - 1)
             last == seq[Len(seq)]
         IN IF last \in Range(front) THEN FirstOccurrences(front)
            ELSE Append(FirstOccurrences(front), last)

\* C11: the candidate list of a request with keys or indices is the indices its
\* keys resolve to, in key order, then its indices not yet present, in their
\* order, and no validator index occurs in it twice; the response counts and
\* lists it so.
C11_CandidatesAreDeduplicated ==
    laResp.code = "OK" /\ Len(laReq.PublicKeys) + Len(laReq.Indices) > 0 =>
        LET candidates == AppendIndices(ResolveKeys(laReq.PublicKeys).indices, laReq.Indices)
        IN /\ candidates = FirstOccurrences(IndicesOfKeys(laReq.PublicKeys) \o laReq.Indices)
           /\ \A j, k \in DOMAIN candidates : j # k => candidates[j] # candidates[k]
           /\ laResp.TotalSize = Cardinality(Range(candidates))
           /\ \A j, k \in DOMAIN laResp.Assignments :
                 j # k => laResp.Assignments[j].ValidatorIndex # laResp.Assignments[k].ValidatorIndex

\* The positions of the keys of a request that no validator has.
UnresolvedKeys(req) ==
    {k \in DOMAIN req.PublicKeys : ~ValidatorIndexByPubkey(ToBytes48(req.PublicKeys[k])).ok}

\* C12: a request with a key no validator has fails with NotFound at the first
\* such key, having looked up the keys before it and none after it, and returns
\* no assignments, whatever its later keys, indices and page token are.
C12_UnresolvedKeyFailsFirst ==
    PastSnapshot /\ UnresolvedKeys(laReq) # {} =>
        LET first == CHOOSE k \in UnresolvedKeys(laReq) : \A j \in UnresolvedKeys(laReq) : k <= j
        IN laResp = ListFailure("NotFound", "Could not find validator index for public key",
                                <<"CurrentSlot", "StateBySlot">>
                                \o [j \in 1..first |-> "ValidatorIndexByPubkey"])

\* A request failed at its first key although its second key has a validator.
C12_Witness ==
    /\ laResp.code = "NotFound"
    /\ Len(laReq.PublicKeys) = 2
    /\ UnresolvedKeys(laReq) = {1}
    /\ laReq.PageToken = <<"x">>

\* The page index a request's token stands for, and the page size in effect.
PageIndexOf(req) == IF req.PageToken = <<>> THEN 0 ELSE Atoi(req.PageToken).val

PageSizeOf(req) == IF req.PageSize = 0 THEN DefaultPageSize ELSE req.PageSize

\* The part of a list that page k of size P covers.
PageOf(list, k, P) ==
    SubSeq(list, k * P + 1, IF k * P + P <= Len(list) THEN k * P + P ELSE Len(list))

\* The validators with activation_epoch <= epoch < exit_epoch.
ActiveAt(epoch) ==
    {i \in Validators :
        validators[i].ActivationEpoch <= epoch /\ epoch < validators[i].ExitEpoch}

\* C13: a successful request with neither keys nor indices lists exactly the
\* validators active at its epoch, in ascending index order; a request with a
\* key or an index lists what it names, active or not, and never the active set.
C13_ActiveSetIsTheDefault ==
    laResp.code = "OK" =>
        LET E == RequestedEpoch(laReq.QueryFilter)
            named == IndicesOfKeys(laReq.PublicKeys)
                     \o SelectSeq(laReq.Indices,
                                  LAMBDA i : i \notin Range(IndicesOfKeys(laReq.PublicKeys)))
        IN IF laReq.PublicKeys = <<>> /\ laReq.Indices = <<>>
           THEN /\ laResp.TotalSize = Cardinality(ActiveAt(E))
                /\ ResponseIndices(laResp)
                     = PageOf(SortAsc(ActiveAt(E)), PageIndexOf(laReq), PageSizeOf(laReq))
           ELSE /\ laResp.TotalSize = Len(named)
                /\ ResponseIndices(laResp)
                     = PageOf(named, PageIndexOf(laReq), PageSizeOf(laReq))

\* A request without keys and indices was answered with the active validators,
\* one validator of the registry not being active at the epoch.
C13_Witness ==
    /\ laResp.code = "OK"
    /\ laReq.PublicKeys = <<>> /\ laReq.Indices = <<>>
    /\ laResp.TotalSize = NumValidators - 1
    /\ Len(laResp.Assignments) >= 2

\* C14: a request without keys and indices for an epoch at which no validator is
\* active gets a successful response with no assignments, total size 0 and the
\* next page token "0", and the paginator is not run, whatever its page token.
C14_EmptyListIsAResponse ==
    /\ PastSnapshot
    /\ laReq.PublicKeys = <<>> /\ laReq.Indices = <<>>
    /\ ActiveAt(RequestedEpoch(laReq.QueryFilter)) = {}
    => /\ laResp.code = "OK"
       /\ laResp.Assignments = <<>>
       /\ laResp.TotalSize = 0
       /\ laResp.NextPageToken = <<"0">>
       /\ "StartAndEndPage" \notin Range(laResp.calls)

\* An empty list was returned to a request whose page token is no number.
C14_Witness ==
    /\ laResp.code = "OK"
    /\ laResp.NextPageToken = <<"0">>
    /\ laResp.TotalSize = 0
    /\ laReq.PageToken = <<"x">>

\* C15: over a non-empty candidate list of length T a request whose page start,
\* the page index of its token times the page size in effect, is >= T fails
\* with an Internal error that names the start and T; it returns no assignments
\* and the committee schedule is not computed.
C15_PageStartPastTheListFails ==
    /\ PastSnapshot
    /\ UnresolvedKeys(laReq) = {}
    /\ Len(CandidatesOf(laReq)) > 0
    /\ laReq.PageToken # <<"x">>
    /\ PageIndexOf(laReq) * PageSizeOf(laReq) >= Len(CandidatesOf(laReq))
    => /\ laResp.code = "Internal"
       /\ laResp.msg = "Could not paginate results"
       /\ laResp.cause = <<"page start >= list",
                           PageIndexOf(laReq) * PageSizeOf(laReq), Len(CandidatesOf(laReq))>>
       /\ laResp.Assignments = <<>>
       /\ "CommitteeAssignments" \notin Range(laResp.calls)

\* The third page of the default size was asked of a list of all validators.
C15_Witness ==
    /\ laResp.code = "Internal"
    /\ laReq.PageSize = 0
    /\ laReq.PageToken = <<"2">>
    /\ laResp.cause = <<"page start >= list", 2 * DefaultPageSize, NumValidators>>

\* Where page k of size P over T elements ends.
PageEnd(k, P, T) == IF k * P + P <= T THEN k * P + P ELSE T

\* C16: a successful response over T candidates to page index k and page size P
\* serves candidates[k*P .. min(k*P+P, T)), and its next page token is empty
\* exactly when that end is T and otherwise the decimal string of k+1.
C16_ServedSliceAndNextToken ==
    laResp.code = "OK" /\ Len(CandidatesOf(laReq)) > 0 =>
        LET candidates == CandidatesOf(laReq)
            k == PageIndexOf(laReq)
            P == PageSizeOf(laReq)
            end == PageEnd(k, P, Len(candidates))
        IN /\ k * P < end
           /\ ResponseIndices(laResp) = [j \in 1..(end - k * P) |-> candidates[k * P + j]]
           /\ laResp.NextPageToken = <<>> <=> end = Len(candidates)
           /\ end # Len(candidates) =>
                 Atoi(laResp.NextPageToken) = [err |-> FALSE, val |-> k + 1]

\* The second of three pages of one candidate each was served.
C16_Witness ==
    /\ laResp.code = "OK"
    /\ laReq.PageToken = <<"1">>
    /\ laReq.PageSize = 1
    /\ laResp.TotalSize = 3
    /\ laResp.NextPageToken = <<"2">>
    /\ ResponseIndices(laResp) = <<CandidatesOf(laReq)[2]>>

\* C17: the token is a page index scaled by the page size of the call: the same
\* request made with another page size is served the page of that index and
\* that size, which starts at another position of the candidate list, so with
\* distinct candidates the two responses start with different validators.
C17_TokenIsScaledByThePageSize ==
    laResp.code = "OK" /\ PageIndexOf(laReq) >= 1 /\ Len(CandidatesOf(laReq)) > 0 =>
        \A ps \in 1..MaxRPCPageSize :
            LET candidates == CandidatesOf(laReq)
                k == PageIndexOf(laReq)
                other == ListValidatorAssignments([laReq EXCEPT !.PageSize = ps], FALSE)
            IN ps # PageSizeOf(laReq) /\ other.code = "OK" =>
                  /\ ResponseIndices(laResp) = PageOf(candidates, k, PageSizeOf(laReq))
                  /\ ResponseIndices(other) = PageOf(candidates, k, ps)
                  /\ k * ps # k * PageSizeOf(laReq)
                  /\ (\A i, j \in DOMAIN candidates : i # j => candidates[i] # candidates[j])
                        => ResponseIndices(other)[1] # ResponseIndices(laResp)[1]

\* Token "1" with page size 2 over three candidates served position [2,3) and
\* ended the listing, where page size 1 serves position [1,2).
C17_Witness ==
    /\ laResp.code = "OK"
    /\ laReq.PageToken = <<"1">>
    /\ laReq.PageSize = 2
    /\ laResp.TotalSize = 3
    /\ ResponseIndices(laResp) = <<CandidatesOf(laReq)[3]>>
    /\ laResp.NextPageToken = <<>>
    /\ ResponseIndices(ListValidatorAssignments([laReq EXCEPT !.PageSize = 1], FALSE))
          = <<CandidatesOf(laReq)[2]>>

\* C18: a request that names an index at or past the validator count, and that
\* no earlier check has failed, fails with OutOfRange and returns no
\* assignments; every assignment of a successful response is of an index below
\* the validator count.
C18_IndexPastTheRegistryFails ==
    /\ laResp.code = "OK" =>
          \A k \in DOMAIN laResp.Assignments :
              laResp.Assignments[k].ValidatorIndex < NumValidators
    /\ (/\ PastSnapshot
        /\ UnresolvedKeys(laReq) = {}
        /\ \E k \in DOMAIN laReq.Indices : laReq.Indices[k] >= NumValidators
        /\ laResp.msg # "Could not paginate results")
       => laResp.code = "OutOfRange" /\ laResp.Assignments = <<>>

\* C19: every successful response with assignments reports as its total size
\* the length of the whole candidate list, holds as many assignments as its
\* page has positions, in candidate-list order, and carries the requested
\* epoch; the next page of a listing reports the same total size.
C19_TotalSizeIsTheWholeList ==
    [][laResp'.code = "OK" /\ laResp'.Assignments # <<>> =>
          LET candidates == CandidatesOf(laReq)'
              start == (PageIndexOf(laReq) * PageSizeOf(laReq))'
              end == PageEnd(PageIndexOf(laReq), PageSizeOf(laReq), Len(CandidatesOf(laReq)))'
          IN /\ laResp'.TotalSize = Len(candidates)
             /\ Len(laResp'.Assignments) = end - start
             /\ \A j \in DOMAIN laResp'.Assignments :
                   laResp'.Assignments[j].ValidatorIndex = candidates[start + j]
             /\ laResp'.Epoch = RequestedEpoch(laReq.QueryFilter)'
             /\ clPc = "paging" => laResp'.TotalSize = laResp.TotalSize]_vars

\* A listing of three candidates has ended with a page of one.
C19_Witness ==
    /\ clPc = "done"
    /\ laReq.PageToken = <<"1">>
    /\ laResp.TotalSize = 3
    /\ Len(laResp.Assignments) = 1

\* C20: a range scan during which the context was cancelled, after it had
\* accumulated at least one record, returns none of its records and does not
\* return successfully.
C20_CancelledScanReturnsNothing ==
    scanPc = "done" /\ cancelledAt > 0 =>
        consensusInfos = <<>> /\ scanErr # "nil"

C22_CountIsOfProposerSlots ==
    plFirst # NoCall /\ plFirst.msg # "Could not retrieve archived state" =>
        LET total == Cardinality(DOMAIN schedule[plEpoch])
            holders == {schedule[plEpoch][s] : s \in DOMAIN schedule[plEpoch]}
        IN IF total = (IF plEpoch = 0 THEN SlotsPerEpoch - 1 ELSE SlotsPerEpoch)
           THEN /\ plFirst.code = "OK"
                /\ {plFirst.Assignments[k].ValidatorIndex : k \in DOMAIN plFirst.Assignments}
                      = holders
                /\ Len(plFirst.Assignments) = Cardinality(holders)
           ELSE plFirst.code = "Internal"

\* The retained snapshots whose slot lies in the epoch.
SnapshotsIn(epoch) == {s \in retained : StartSlot(epoch) <= s /\ s <= EndSlot(epoch)}

\* C23: for every epoch the historical selection takes, of the retained
\* snapshots at or below the epoch's end slot in decreasing slot order, the
\* first that lies in the epoch, that is the newest snapshot in the epoch, and
\* none when no snapshot lies in the epoch; so a record is returned only for an
\* epoch that holds a snapshot, and a scan that reaches an epoch without one
\* fails there although older snapshots are retained.
C23_SelectionStaysInTheEpoch ==
    /\ \A epoch \in RequestEpochs :
          LET states == HighestSlotStatesBelow(EndSlot(epoch), FALSE).states
              latestState == SelectState(states, StartSlot(epoch), EndSlot(epoch))
          IN IF SnapshotsIn(epoch) = {}
             THEN latestState = -1
             ELSE /\ latestState \in SnapshotsIn(epoch)
                  /\ \A s \in SnapshotsIn(epoch) : s <= latestState
    /\ \A rec \in ReturnedRecords : SnapshotsIn(rec.Epoch) # {}
    /\ scanPc = "done" /\ lastErr # "Could not retrieve archived state" =>
          (lastErr = "Could not retrieve any state"
              <=> SnapshotsIn(attempts[Len(attempts)]) = {})

\* A scan ended at an epoch without a snapshot while an older snapshot, below
\* the epoch's end slot, was retained.
C23_Witness ==
    /\ scanPc = "done"
    /\ Len(consensusInfos) >= 1
    /\ lastErr = "Could not retrieve any state"
    /\ \E s \in retained : s < StartSlot(attempts[Len(attempts)])

\* C24: during one scan the epochs attempted are fromEpoch, fromEpoch + 1, ...
\* in this order, each once; every attempt but the last of a finished scan
\* succeeded and left its record, so epoch N + 1 is attempted only after epoch
\* N succeeded; and the failed attempt is the last one of the scan.
C24_EpochsAreAttemptedInOrder ==
    scanPc # "idle" =>
        /\ \A k \in DOMAIN attempts : attempts[k] = fromEpoch + k - 1
        /\ \A k \in DOMAIN consensusInfos : consensusInfos[k].Epoch = attempts[k]
        /\ scanPc = "scanning" =>
              /\ Len(attempts) = Len(consensusInfos)
              /\ tempEpochIndex = attempts[Len(attempts)]
        /\ scanPc = "done" => Len(attempts) = Len(consensusInfos) + 1

\* A scan that succeeded for two epochs and ended at the third.
C24_Witness ==
    /\ scanPc = "done"
    /\ Len(consensusInfos) = 2
    /\ Len(attempts) = 3

\* C25: a scan that has entered its loop reaches the end of the loop and
\* returns, whatever the retained snapshots are; the loop never gets beyond the
\* epochs the clock has reached, so the first epoch after them ends it at the
\* latest.
C25_ScanTerminates ==
    /\ [](scanPc = "scanning" => tempEpochIndex <= SlotToEpoch(currentSlot))
    /\ (scanPc = "scanning") ~> (scanPc = "done")

\* A scan from epoch 0 that went through every epoch the clock has reached and
\* ended at the first epoch beyond.
C25_Witness ==
    /\ scanPc = "done"
    /\ fromEpoch = 0
    /\ Len(consensusInfos) = MaxEpoch + 1
    /\ attempts[Len(attempts)] = MaxEpoch + 1

\* C26: in every successful response the next page token is empty exactly when
\* the served page is the last one, that is when the page's end reaches the
\* total size (so that a client passing the token back comes to an end).
C26_TokenIsEmptyExactlyAtTheEnd ==
    laResp.code = "OK" =>
        (laResp.NextPageToken = <<>>
            <=> PageEnd(PageIndexOf(laReq), PageSizeOf(laReq), laResp.TotalSize)
                    >= laResp.TotalSize)

\* Whether a list of indices holds one at or past the validator count.
HasIndexOutOfRange(indices) == \E i \in DOMAIN indices : indices[i] >= NumValidators

\* C27: of a request that has reached the paginator, the page start is checked
\* first: a start at or past the list's end fails with the paginator's Internal
\* error, whatever indices the list holds; otherwise the request fails with
\* OutOfRange exactly when the served page holds an index at or past the
\* validator count and succeeds exactly when it holds none, whatever indices
\* the other pages hold.
C27_OnlyTheServedPageIsRangeChecked ==
    "StartAndEndPage" \in Range(laResp.calls) /\ laReq.PageToken # <<"x">> =>
        LET candidates == CandidatesOf(laReq)
            page == PageOf(candidates, PageIndexOf(laReq), PageSizeOf(laReq))
        IN IF PageIndexOf(laReq) * PageSizeOf(laReq) >= Len(candidates)
           THEN /\ laResp.code = "Internal"
                /\ laResp.msg = "Could not paginate results"
           ELSE /\ laResp.code = "OutOfRange" <=> HasIndexOutOfRange(page)
                /\ laResp.code = "OK" <=> ~HasIndexOutOfRange(page)

\* A request that names an index past the registry has been answered with
\* another page of its list.
C27_Witness ==
    /\ laResp.code = "OK"
    /\ laResp.Assignments # <<>>
    /\ HasIndexOutOfRange(CandidatesOf(laReq))

\* A request whose page starts past its list, which names an index past the
\* registry, has failed in the paginator.
C27_WitnessPageStart ==
    /\ laResp.msg = "Could not paginate results"
    /\ laReq.PageToken # <<"x">>
    /\ HasIndexOutOfRange(CandidatesOf(laReq))

\* The errors an epoch's record can fail with before its key list is built.
ProposerListErrors ==
    {"Could not retrieve archived state", "Could not retrieve any state",
     "invalid validators len"}

\* C28: whenever getPastProposerListForEpoch succeeds, for any epoch and any
\* order of its records, the key list built from its result has SlotsPerEpoch
\* entries, so MinimalConsensusInfo never fails in its own length check: every
\* failed single call and every failure that ended a scan is a failure of
\* getPastProposerListForEpoch.
C28_KeyListLengthCheckNeverFails ==
    /\ \A epoch \in RequestEpochs :
          \A order \in MapOrders(epoch) :
              LET assignments == getPastProposerListForEpoch(epoch, FALSE, order)
              IN assignments.code = "OK" =>
                    /\ Len(AssignmentsSlice(epoch, assignments.Assignments)) = SlotsPerEpoch
                    /\ MinimalConsensusInfo(epoch, FALSE, order).code = "OK"
    /\ infoResp # NoInfo /\ infoResp.code # "OK" => infoResp.msg \in ProposerListErrors
    /\ scanPc = "done" => lastErr \in ProposerListErrors

\* The record of epoch 0, whose key list is the placeholder and the keys of one
\* proposer less than an epoch has slots, has been returned by a single call.
C28_Witness ==
    /\ infoResp.code = "OK"
    /\ infoResp.Epoch = 0
    /\ Len(infoResp.Value) = SlotsPerEpoch
    /\ Len(getPastProposerListForEpoch(0, FALSE, SortAsc(DOMAIN ProposerAssignments(0))).Assignments)
          = SlotsPerEpoch - 1

====
